---- MODULE Spec2Model ----
(***************************************************************************)
(* kmer-abund-hist.py: one run of abundhist(args).                         *)
(*                                                                         *)
(* The run is a straight-line program; each action below is one block of   *)
(* abundhist, in source order, and pc is the position between the blocks.  *)
(* An uncaught Python exception ends the run in pc = "error" with the      *)
(* exception's type and the source line that raised it.                    *)
(*                                                                         *)
(* Optional arguments (argparse default None) are sets: {} is None and     *)
(* {v} is the value v.  Strings are sequences of characters.  Quantities   *)
(* with a fractional part (numpy's float bin edges) are kept exactly as a  *)
(* numerator over a stated denominator.                                    *)
(***************************************************************************)
EXTENDS Integers, Sequences, FiniteSets

VARIABLES
    args,          \* the parsed command line (never assigned by abundhist)
    files,         \* what load_file_as_signatures yields for each positional
    pc,            \* position in abundhist
    i,             \* index of the next filename of the for loop (line 69)
    siglist,       \* line 70/78/80
    total_loaded,  \* line 68/74
    notices,       \* the notify() calls made so far (lines 82-86)
    counts_d,      \* line 88: hash -> summed abundance
    d_keys,        \* the keys of counts_d in insertion (= iteration) order
    all_counts,    \* line 93
    min_range,     \* line 95/97
    max_range,     \* line 98/100
    n_bins,        \* line 102/104
    counts,        \* line 107
    bin_edges,     \* line 107/110
    shown,         \* fig.show() has been called (line 115)
    outRows,       \* the rows written to the -o file (lines 121-123)
    abundRows,     \* the rows written to the --abundances file (129-131)
    err            \* the uncaught exception, if any

vars == <<args, files, pc, i, siglist, total_loaded, notices, counts_d, d_keys,
          all_counts, min_range, max_range, n_bins, counts, bin_edges, shown,
          outRows, abundRows, err>>

----------------------------------------------------------------------------
(* Bounds of the checked input space.                                      *)

MaxFiles == 2
MaxSigs == 1
MaxAbund == 3
MaxOverride == 3
MaxBins == 4

\* argparse default of --bins (line 50)
DefaultBins == 10

\* k-mer hash values; only their identity matters
Hashes == {11, 22}

Md5Strings == {<<"a", "b">>, <<"b", "c">>}
NameStrings == {<<"x", "y">>, <<"y">>}
Md5Patterns == {<<"a">>, <<"b">>}
NamePatterns == {<<"x">>, <<"y">>}

----------------------------------------------------------------------------
(* Helpers                                                                 *)

None == {}
IsNone(o) == o = {}
Val(o) == CHOOSE v \in o : TRUE
Some(S) == {{v} : v \in S}

NoError == [exc |-> "", line |-> 0]
EmptyMap == [h \in {} |-> 0]

\* Python's `pat in s` on strings
Contains(pat, s) ==
    \E k \in 0..(Len(s) - Len(pat)) : SubSeq(s, k + 1, k + Len(pat)) = pat

\* lines 77-80: the md5 selector, then the name selector, each a list
\* comprehension [ ss for ss in siglist if pat in field ]
Select(sl, a) ==
    LET byMd5 == IF IsNone(a.md5) THEN sl
                 ELSE SelectSeq(sl, LAMBDA ss : Contains(Val(a.md5), ss.md5))
    IN  IF IsNone(a.name) THEN byMd5
        ELSE SelectSeq(byMd5, LAMBDA ss : Contains(Val(a.name), ss.name))

Min(a, b) == IF a < b THEN a ELSE b

RECURSIVE SortedSeq(_)
SortedSeq(S) ==
    IF S = {} THEN <<>>
    ELSE LET m == CHOOSE x \in S : \A y \in S : x <= y
         IN  <<m>> \o SortedSeq(S \ {m})

\* lines 90-91 for one signature: counts_d[hashval] += abund, a missing key
\* starting from int() = 0.  d is [keys, val].
AddSig(d, ss) ==
    LET hs == ss.hashes
        new == DOMAIN hs \ DOMAIN d.val
    IN  [keys |-> d.keys \o SortedSeq(new),
         val  |-> [h \in DOMAIN d.val \cup DOMAIN hs |->
                     (IF h \in DOMAIN d.val THEN d.val[h] ELSE 0)
                   + (IF h \in DOMAIN hs THEN hs[h] ELSE 0)]]

\* lines 88-91: the loop over siglist
RECURSIVE Aggregate(_, _)
Aggregate(d, sl) ==
    IF sl = <<>> THEN d ELSE Aggregate(AddSig(d, Head(sl)), Tail(sl))

----------------------------------------------------------------------------
(* numpy.histogram(a, range=(lo, hi), bins=n) and ndarray.astype(int)      *)

\* ClampBins with the "+ 1" of the width forgotten
ClampBinsNarrow(bins, lo, hi) ==
    IF hi - lo < bins THEN hi - lo ELSE bins

\* ClampBins that never goes below one bin
ClampBinsAtLeastOne(bins, lo, hi) ==
    LET n == IF hi - lo + 1 < bins THEN hi - lo + 1 ELSE bins
    IN  IF n < 1 THEN 1 ELSE n

\* lines 102-104
ClampBins(bins, lo, hi) ==
    IF hi - lo + 1 < bins THEN hi - lo + 1 ELSE bins

\* numpy _get_outer_edges, doubled: a range of zero width is widened by 0.5
\* on each side
OuterEdges(lo, hi) ==
    IF lo = hi THEN <<2 * lo - 1, 2 * hi + 1>> ELSE <<2 * lo, 2 * hi>>

\* numpy rejects a range with first_edge > last_edge
RangeRejected(lo, hi) == lo > hi

\* linspace(first, last, n + 1)[k] as a fraction: EdgeNum / (2 * n)
EdgeNum(k, n, oe) == oe[1] * n + k * (oe[2] - oe[1])

\* float -> int conversion of astype(int): truncation toward zero
AsInt(num, den) ==
    IF num >= 0 THEN num \div den ELSE -((-num) \div den)

\* InRange with the last edge excluded
InRangeHalfOpen(v, oe) == 2 * v >= oe[1] /\ 2 * v < oe[2]

\* the values numpy keeps: first_edge <= v <= last_edge
InRange(v, oe) == 2 * v >= oe[1] /\ 2 * v <= oe[2]

\* BinIndex without the move of the last edge's value into the last bin
BinIndexNoLastEdge(v, n, oe) ==
    ((2 * v - oe[1]) * n) \div (oe[2] - oe[1])

\* the 0-based bin of a kept value: int((v - first) / (last - first) * n),
\* with the value on the last edge moved into the last bin
BinIndex(v, n, oe) ==
    LET idx == ((2 * v - oe[1]) * n) \div (oe[2] - oe[1])
    IN  IF idx = n THEN n - 1 ELSE idx

\* line 107-110: [exc, counts, bin_edges]
NumpyHistogram(a, lo, hi, n) ==
    IF n < 1 THEN
        [exc |-> "ValueError", counts |-> <<>>, bin_edges |-> <<>>]
    ELSE IF RangeRejected(lo, hi) THEN
        [exc |-> "ValueError", counts |-> <<>>, bin_edges |-> <<>>]
    ELSE
        LET oe == OuterEdges(lo, hi)
        IN  [exc |-> "",
             counts |-> [j \in 1..n |->
                 Cardinality({k \in DOMAIN a :
                     InRange(a[k], oe) /\ BinIndex(a[k], n, oe) = j - 1})],
             bin_edges |-> [k \in 1..(n + 1) |->
                 AsInt(EdgeNum(k - 1, n, oe), 2 * n)]]

\* bin_edges[1:]
ReportedEdges(edges) == IF edges = <<>> THEN <<>> ELSE Tail(edges)

\* zip(counts, bin_edges[1:]) written as rows [c, nc] (lines 122-123)
HistRows(cs, edges) ==
    [k \in 1..Min(Len(cs), Len(ReportedEdges(edges))) |->
        <<ReportedEdges(edges)[k], cs[k]>>]

\* the names bound in the module's namespace: imports of lines 9-18 and
\* the two functions
ModuleNames ==
    {"sys", "argparse", "numpy", "collections", "tpl", "sourmash",
     "sourmash_args", "add_moltype_args", "add_ksize_arg", "set_quiet",
     "notify", "main", "abundhist"}

----------------------------------------------------------------------------
(* Inputs                                                                  *)

HashMaps == UNION {[D -> 1..MaxAbund] : D \in SUBSET Hashes}

Signatures == [name : NameStrings, md5 : Md5Strings, hashes : HashMaps]

SeqsUpTo(S, lo, hi) == UNION {[1..m -> S] : m \in lo..hi}

\* nargs='+': at least one positional
FileLists(S, maxFiles, maxSigs) ==
    SeqsUpTo(SeqsUpTo(S, 0, maxSigs), 1, maxFiles)

Overrides == Some((0 - MaxOverride)..MaxOverride) \cup {None}

HistArgs ==
    [md5 : {None}, name : {None}, min : Overrides, max : Overrides,
     bins : ((0 - 1)..MaxBins) \cup {DefaultBins},
     output : BOOLEAN, abundances : BOOLEAN]

SelectArgs ==
    [md5 : Some(Md5Patterns) \cup {None}, name : Some(NamePatterns) \cup {None},
     min : {None}, max : {None}, bins : {DefaultBins},
     output : {FALSE}, abundances : {FALSE}]

OneSig ==
    {ss \in Signatures : ss.name = <<"x", "y">> /\ ss.md5 = <<"a", "b">>}

Start ==
    /\ pc = "load"
    /\ i = 1
    /\ siglist = <<>>
    /\ total_loaded = 0
    /\ notices = <<>>
    /\ counts_d = EmptyMap
    /\ d_keys = <<>>
    /\ all_counts = <<>>
    /\ min_range = 0
    /\ max_range = 0
    /\ n_bins = 0
    /\ counts = <<>>
    /\ bin_edges = <<>>
    /\ shown = FALSE
    /\ outRows = <<>>
    /\ abundRows = <<>>
    /\ err = NoError

\* one source holding at most one signature, every range and bin argument
Init ==
    /\ args \in HistArgs
    /\ files \in FileLists(OneSig, 1, 1)
    /\ Start

\* several sources and the selectors, default range and bins
InitSelect ==
    /\ args \in SelectArgs
    /\ files \in FileLists(Signatures, MaxFiles, MaxSigs)
    /\ Start

----------------------------------------------------------------------------
(* Actions                                                                 *)

Raise(exc, line) ==
    /\ pc' = "error"
    /\ err' = [exc |-> exc, line |-> line]

\* lines 69-80: one iteration of the for loop
LoadFile ==
    /\ pc = "load"
    /\ i <= Len(files)
    /\ total_loaded' = total_loaded + Len(files[i])
    /\ siglist' = Select(files[i], args)
    /\ i' = i + 1
    /\ pc' = IF i = Len(files) THEN "notify" ELSE "load"
    /\ UNCHANGED <<args, files, notices, counts_d, d_keys, all_counts,
                   min_range, max_range, n_bins, counts, bin_edges, shown,
                   outRows, abundRows, err>>

\* lines 82-86
Notify ==
    /\ pc = "notify"
    /\ notices' = notices
          \o <<[msg |-> "loaded", n |-> total_loaded]>>
          \o (IF Len(siglist) # total_loaded
              THEN <<[msg |-> "selected", n |-> Len(siglist)]>> ELSE <<>>)
    /\ pc' = "aggregate"
    /\ UNCHANGED <<args, files, i, siglist, total_loaded, counts_d, d_keys,
                   all_counts, min_range, max_range, n_bins, counts, bin_edges,
                   shown, outRows, abundRows, err>>

\* lines 88-93
AggregateAbundances ==
    /\ pc = "aggregate"
    /\ LET d == Aggregate([keys |-> <<>>, val |-> EmptyMap], siglist)
       IN  /\ counts_d' = d.val
           /\ d_keys' = d.keys
           /\ all_counts' = [k \in 1..Len(d.keys) |-> d.val[d.keys[k]]]
    /\ pc' = "range"
    /\ UNCHANGED <<args, files, i, siglist, total_loaded, notices, min_range,
                   max_range, n_bins, counts, bin_edges, shown, outRows,
                   abundRows, err>>

MaxOf(s) == CHOOSE m \in {s[k] : k \in DOMAIN s} : \A k \in DOMAIN s : s[k] <= m

\* lines 95-100: max(all_counts) is evaluated before args.max is looked at
ResolveRange ==
    /\ pc = "range"
    /\ min_range' = IF IsNone(args.min) THEN 1 ELSE Val(args.min)
    /\ IF all_counts = <<>>
       THEN /\ Raise("ValueError", 98)
            /\ UNCHANGED max_range
       ELSE /\ max_range' = IF IsNone(args.max) THEN MaxOf(all_counts)
                            ELSE Val(args.max)
            /\ pc' = "hist"
            /\ UNCHANGED err
    /\ UNCHANGED <<args, files, i, siglist, total_loaded, notices, counts_d,
                   d_keys, all_counts, n_bins, counts, bin_edges, shown,
                   outRows, abundRows>>

\* lines 102-110
MakeHist ==
    /\ pc = "hist"
    /\ n_bins' = ClampBins(args.bins, min_range, max_range)
    /\ LET h == NumpyHistogram(all_counts, min_range, max_range, n_bins')
       IN  IF h.exc # ""
           THEN /\ Raise(h.exc, 107)
                /\ UNCHANGED <<counts, bin_edges>>
           ELSE /\ counts' = h.counts
                /\ bin_edges' = h.bin_edges
                /\ pc' = "plot"
                /\ UNCHANGED err
    /\ UNCHANGED <<args, files, i, siglist, total_loaded, notices, counts_d,
                   d_keys, all_counts, min_range, max_range, shown, outRows,
                   abundRows>>

\* lines 113-115
Plot ==
    /\ pc = "plot"
    /\ shown' = TRUE
    /\ pc' = "output"
    /\ UNCHANGED <<args, files, i, siglist, total_loaded, notices, counts_d,
                   d_keys, all_counts, min_range, max_range, n_bins, counts,
                   bin_edges, outRows, abundRows, err>>

\* lines 118-123: FileOutput is looked up first, then csv
WriteOutput ==
    /\ pc = "output"
    /\ IF ~args.output
       THEN /\ pc' = "abundances"
            /\ UNCHANGED <<outRows, err>>
       ELSE IF {"FileOutput", "csv"} \subseteq ModuleNames
       THEN /\ outRows' = <<<<"count", "n_count">>>> \o HistRows(counts, bin_edges)
            /\ pc' = "abundances"
            /\ UNCHANGED err
       ELSE /\ Raise("NameError", 119)
            /\ UNCHANGED outRows
    /\ UNCHANGED <<args, files, i, siglist, total_loaded, notices, counts_d,
                   d_keys, all_counts, min_range, max_range, n_bins, counts,
                   bin_edges, shown, abundRows>>

\* lines 126-131
WriteAbundances ==
    /\ pc = "abundances"
    /\ IF ~args.abundances
       THEN /\ pc' = "done"
            /\ UNCHANGED <<abundRows, err>>
       ELSE IF {"FileOutput", "csv"} \subseteq ModuleNames
       THEN /\ abundRows' = <<<<"hashval", "count">>>>
                  \o [k \in 1..Len(d_keys) |-> <<d_keys[k], counts_d[d_keys[k]]>>]
            /\ pc' = "done"
            /\ UNCHANGED err
       ELSE /\ Raise("NameError", 127)
            /\ UNCHANGED abundRows
    /\ UNCHANGED <<args, files, i, siglist, total_loaded, notices, counts_d,
                   d_keys, all_counts, min_range, max_range, n_bins, counts,
                   bin_edges, shown, outRows>>

Next ==
    \/ LoadFile
    \/ Notify
    \/ AggregateAbundances
    \/ ResolveRange
    \/ MakeHist
    \/ Plot
    \/ WriteOutput
    \/ WriteAbundances

Spec == Init /\ [][Next]_vars

SpecSelect == InitSelect /\ [][Next]_vars

----------------------------------------------------------------------------
(* Where the run stands                                                    *)

\* lines 88-93 have run
Aggregated == pc \notin {"load", "notify", "aggregate"}

\* lines 82-86 have run
Notified == pc \notin {"load", "notify"}

\* lines 95-100 have run, and how they ended
RangeFailed == pc = "error" /\ err.line = 98
RangeResolved == pc \in {"hist", "plot", "output", "abundances", "done"}
                   \/ (pc = "error" /\ err.line > 98)

\* lines 102-110 have run, and how they ended
HistFailed == pc = "error" /\ err.line = 107
HistBuilt == pc \in {"plot", "output", "abundances", "done"}
               \/ (pc = "error" /\ err.line > 107)

Finished == pc \in {"done", "error"}

RECURSIVE SumSeq(_)
SumSeq(s) == IF s = <<>> THEN 0 ELSE Head(s) + SumSeq(Tail(s))

RECURSIVE Concat(_)
Concat(ss) == IF ss = <<>> THEN <<>> ELSE Head(ss) \o Concat(Tail(ss))

\* the signatures of all sources that satisfy every active selector
AllSelected == Concat([k \in DOMAIN files |-> Select(files[k], args)])
AllLoaded == Concat(files)

AbundIn(ss, h) == IF h \in DOMAIN ss.hashes THEN ss.hashes[h] ELSE 0

Width == max_range - min_range + 1

InRangeValues == {k \in DOMAIN all_counts :
                    min_range <= all_counts[k] /\ all_counts[k] <= max_range}

----------------------------------------------------------------------------
(* Claims                                                                  *)

\* C1: once aggregation has run, counts_d holds exactly the hashes of the
\* selected signatures of all input sources, each with the sum of its
\* abundance over the selected signatures that contain it.
C1_AggregateOfAllSelected ==
    Aggregated =>
        /\ DOMAIN counts_d = UNION {DOMAIN AllSelected[k].hashes : k \in DOMAIN AllSelected}
        /\ \A h \in DOMAIN counts_d :
              counts_d[h] = SumSeq([k \in DOMAIN AllSelected |-> AbundIn(AllSelected[k], h)])

\* C2: when the histogram is built, the bin counts add up to the number of
\* aggregate values v with min_range <= v <= max_range, so no value outside
\* the range is counted in any bin.
C2_Coverage ==
    HistBuilt => SumSeq(counts) = Cardinality(InRangeValues)

C2_Witness ==
    /\ HistBuilt
    /\ InRangeValues # {}
    /\ \E k \in DOMAIN all_counts : all_counts[k] > max_range

\* C3: for requested bins b >= 1 and width w >= 1 the histogram is built with
\* exactly min(b, w) bins, and counts and bin_edges[1:] have that length.
C3_BinCountClamp ==
    ((HistBuilt \/ HistFailed) /\ args.bins >= 1 /\ Width >= 1) =>
        /\ HistBuilt
        /\ n_bins = Min(args.bins, Width)
        /\ Len(counts) = n_bins
        /\ Len(bin_edges) - 1 = n_bins

C3_Witness ==
    /\ HistBuilt
    /\ Width >= 2
    /\ args.bins > Width
    /\ Len(counts) = Width

\* C4: when the histogram is built, the reported integer edges bin_edges[1:]
\* are strictly increasing, for every resolved range.
C4_EdgesStrictlyIncreasing ==
    HistBuilt =>
        \A k \in 2..(Len(bin_edges) - 1) : bin_edges[k] < bin_edges[k + 1]

\* C5: range resolution fails if the aggregate map is empty and --max is not
\* given; with --max given it does not fail and max_range is the override;
\* min_range is the --min override if given, else 1.
C5_RangeResolution ==
    (RangeResolved \/ RangeFailed) =>
        /\ (DOMAIN counts_d = {} /\ IsNone(args.max)) => RangeFailed
        /\ ~IsNone(args.max) => (~RangeFailed /\ max_range = Val(args.max))
        /\ min_range = (IF IsNone(args.min) THEN 1 ELSE Val(args.min))

\* C6: with a non-empty aggregate map, bins <= 0 or max_range < min_range
\* ends histogram construction in an error with no counts and no edges, and
\* max_range = min_range with bins >= 1 does not fail.
C6_InvalidRangeFails ==
    ((HistBuilt \/ HistFailed) /\ all_counts # <<>>) =>
        /\ (args.bins <= 0 \/ max_range < min_range) =>
              (HistFailed /\ counts = <<>> /\ bin_edges = <<>> /\ ~shown)
        /\ (max_range = min_range /\ args.bins >= 1) => HistBuilt

C6_Witness ==
    /\ HistFailed
    /\ all_counts # <<>>
    /\ args.bins >= 1
    /\ max_range < min_range

\* C7: with -o given and the histogram built, the run ends successfully
\* with the header row followed by one (upper edge, count) row per bin, in
\* bin order.
C7_OutputWritten ==
    (args.output /\ HistBuilt /\ Finished) =>
        /\ pc = "done"
        /\ outRows = <<<<"count", "n_count">>>>
                       \o [k \in 1..n_bins |-> <<bin_edges[k + 1], counts[k]>>]

\* C8: a run that fails has rendered nothing and written no row of either
\* CSV file.
C8_AllOrNothing ==
    pc = "error" => (~shown /\ outRows = <<>> /\ abundRows = <<>>)

\* the reported integer edges, with e_0 = min_range
IntEdge(k) == IF k = 0 THEN min_range ELSE bin_edges[k + 1]

\* C9 as stated: each count is the number of values between the reported
\* integer edges, [e_(i-1), e_i) and for the last bin [e_(n-1), max_range].
C9_CountsMatchIntegerEdges ==
    HistBuilt =>
        \A b \in 1..n_bins :
            counts[b] = Cardinality({k \in DOMAIN all_counts :
                /\ IntEdge(b - 1) <= all_counts[k]
                /\ IF b < n_bins THEN all_counts[k] < IntEdge(b)
                   ELSE all_counts[k] <= max_range})

\* the exact equal-width edge E_k, times 2 * n_bins
ExactEdge2n(k) == EdgeNum(k, n_bins, OuterEdges(min_range, max_range))

\* C9 amended: each count is the number of values between the exact
\* equal-width edges, [E_(i-1), E_i) and for the last bin [E_(n-1), E_n],
\* and each reported edge is E_i with its fractional part dropped, so it
\* lies at or on the zero side of E_i, less than one away.
C9_CountsMatchExactEdges ==
    HistBuilt =>
        \A b \in 1..n_bins :
            /\ counts[b] = Cardinality({k \in DOMAIN all_counts :
                  /\ ExactEdge2n(b - 1) <= 2 * n_bins * all_counts[k]
                  /\ IF b < n_bins
                     THEN 2 * n_bins * all_counts[k] < ExactEdge2n(b)
                     ELSE 2 * n_bins * all_counts[k] <= ExactEdge2n(b)})
            /\ IF ExactEdge2n(b) >= 0
               THEN /\ 2 * n_bins * IntEdge(b) <= ExactEdge2n(b)
                    /\ ExactEdge2n(b) < 2 * n_bins * (IntEdge(b) + 1)
               ELSE /\ 2 * n_bins * (IntEdge(b) - 1) < ExactEdge2n(b)
                    /\ ExactEdge2n(b) <= 2 * n_bins * IntEdge(b)

\* a value equal to the reported upper edge of a bin that is not the last,
\* counted in that bin
C9_Witness ==
    /\ HistBuilt
    /\ \E b \in 1..(n_bins - 1) : \E k \in DOMAIN all_counts :
          /\ all_counts[k] = IntEdge(b)
          /\ ExactEdge2n(b - 1) <= 2 * n_bins * all_counts[k]
          /\ 2 * n_bins * all_counts[k] < ExactEdge2n(b)
          /\ counts[b] >= 1

\* C10: the "selected N" notice is emitted only when an active selector
\* removed at least one loaded signature, and N is the number of selected
\* signatures of all input sources.
C10_SelectedNotice ==
    Notified =>
        \A k \in DOMAIN notices :
            notices[k].msg = "selected" =>
                /\ ~(IsNone(args.md5) /\ IsNone(args.name))
                /\ Len(AllSelected) < Len(AllLoaded)
                /\ notices[k].n = Len(AllSelected)

====
